---- MODULE Spec2Model ----
(***************************************************************************)
(* Headless GPU-to-CPU image readback of bevy_rat (src/render_headless.rs): *)
(* the ImageCopier registry, ImageCopyNode::run (Copy Stage),               *)
(* receive_image_from_buffer (Map-and-Deliver Stage), the delivery channel  *)
(* to the main world and parse_image_data (Frame Reconstructor).            *)
(***************************************************************************)
EXTENDS Integers, Sequences, FiniteSets, TLC

\* ------------------------------------------------------------------------
\* Bounds of the model
\* ------------------------------------------------------------------------
NumReqs == 2

MaxFrames == 2

MaxToggles == 2

Reqs == 1..NumReqs

\* ------------------------------------------------------------------------
\* State
\* ------------------------------------------------------------------------
VARIABLES
    copiers,         \* main world: the ImageCopier components, in query order
    spawned,         \* number of ImageCopier::new calls so far (ids 1..spawned)
    enabled,         \* ImageCopier.enabled, the Arc<AtomicBool> shared by all clones
    image_copiers,   \* render world: the ImageCopiers resource (the registry)
    buffer,          \* ImageCopier.buffer: map state of each staging buffer
    buffer_data,     \* frame whose copy last wrote each staging buffer, 0 = never written
    queue,           \* RenderQueue: submitted copy commands not yet executed
    pc,              \* position of the render world in its per-frame schedule
    idx,             \* position of the running stage's loop in image_copiers
    frame,           \* number of frames extracted so far
    slot,            \* the bounded(1) channel (s, r) of the running map_async
    vec,             \* the Vec<u8> made by get_mapped_range().to_vec()
    channel,         \* RenderWorldSender -> MainWorldReceiver, undelivered buffers
    receiver_alive,  \* FALSE once the main world dropped MainWorldReceiver
    received,        \* main world: the buffers taken from MainWorldReceiver, in order
    panic,           \* "none", or the reason the render world panicked
    toggles,         \* number of stores to enabled flags so far
    \* history of the running frame, read by the properties only
    log,             \* steps receive_image_from_buffer took for the running request
    copied,          \* requests whose copy ImageCopyNode::run submitted this frame
    sent,            \* requests whose buffer sender.send was called with this frame
    not_ready,       \* requests whose source image ImageCopyNode::run could not resolve
    writes,          \* stores to each request's enabled flag since extraction (capped at 2)
    sent_ok,         \* every buffer a send put on the channel, in order
    \* the Frame Reconstructor, exercised on its own
    size,            \* Extent3d of the image: [width, height]
    pixel_size,      \* texture_descriptor.format.pixel_size() of the image
    pattern,         \* the tightly packed bytes of the texture
    origin,          \* how image_data was made: "none", "padded" or "staging"
    image_data,      \* the Vec<u8> handed to parse_image_data
    img_data,        \* img_bytes.data after parse_image_data filled it
    ppc,             \* "make", "parse" or "done"
    \* the sizes ImageCopier::new and ImageCopyNode::run compute, on their own
    texture,         \* the source image: [width, height, block_width, block_size]
    allocated,       \* size of the staging buffer ImageCopier::new created, 0 = none yet
    padded_bytes_per_row,  \* what ImageCopyNode::run computed, 0 = not run yet
    spc              \* "new", "run" or "done"

pipeVars == <<copiers, spawned, enabled, image_copiers, buffer, buffer_data, queue, pc,
              idx, frame, slot, vec, channel, receiver_alive, received, panic, toggles,
              log, copied, sent, not_ready, writes, sent_ok>>

parseVars == <<size, pixel_size, pattern, origin, image_data, img_data, ppc>>

sizeVars == <<texture, allocated, padded_bytes_per_row, spc>>

vars == <<pipeVars, parseVars, sizeVars>>

NoVec == [req |-> 0, data |-> 0]

\* ------------------------------------------------------------------------
\* Helpers
\* ------------------------------------------------------------------------
\* Mutant: the flag is not consulted
EnabledAlways(r) == TRUE

\* ImageCopier::enabled(): a relaxed load of the shared flag
Enabled(r) == enabled[r]

\* The request the running loop iteration is at
Cur == image_copiers[idx]

\* Where the render world goes when the loop of receive_image_from_buffer over
\* the registry reg moves to index i: the next request, or the next frame's
\* extraction when the loop is over
NextRecv(reg, i) ==
    IF i <= Len(reg) THEN <<"recv_check", i>> ELSE <<"extract", 0>>

\* Where the render world goes when the loop of ImageCopyNode::run over the
\* registry reg moves to index i: the next request, or
\* receive_image_from_buffer when the loop is over
NextCopy(reg, i) ==
    IF i <= Len(reg) THEN <<"copy_check", i>> ELSE NextRecv(reg, 1)

AfterRecv(i) == NextRecv(image_copiers, i)

AfterCopy(i) == NextCopy(image_copiers, i)

Goto(target) == pc' = target[1] /\ idx' = target[2]

Bump(n) == IF n < 2 THEN n + 1 ELSE 2

\* Executing the submitted copy commands: each writes its frame into its buffer
RECURSIVE Execute(_, _)
Execute(q, data) ==
    IF q = <<>> THEN data
    ELSE Execute(Tail(q), [data EXCEPT ![Head(q)[1]] = Head(q)[2]])

\* ------------------------------------------------------------------------
\* Initial state
\* ------------------------------------------------------------------------
PipeInit ==
    /\ copiers = <<>>
    /\ spawned = 0
    /\ enabled = [r \in Reqs |-> TRUE]
    /\ image_copiers = <<>>
    /\ buffer = [r \in Reqs |-> "unmapped"]
    /\ buffer_data = [r \in Reqs |-> 0]
    /\ queue = <<>>
    /\ pc = "extract"
    /\ idx = 0
    /\ frame = 0
    /\ slot = <<>>
    /\ vec = NoVec
    /\ channel = <<>>
    /\ receiver_alive = TRUE
    /\ received = <<>>
    /\ panic = "none"
    /\ toggles = 0
    /\ log = <<>>
    /\ copied = {}
    /\ sent = <<>>
    /\ not_ready = {}
    /\ writes = [r \in Reqs |-> 0]
    /\ sent_ok = <<>>

\* The Frame Reconstructor at rest
ParseIdle ==
    /\ size = [width |-> 1, height |-> 1]
    /\ pixel_size = 4
    /\ pattern = <<>>
    /\ origin = "none"
    /\ image_data = <<>>
    /\ img_data = <<>>
    /\ ppc = "make"

\* No size computed
SizeIdle ==
    /\ texture = [width |-> 1, height |-> 1, block_width |-> 1, block_size |-> 4]
    /\ allocated = 0
    /\ padded_bytes_per_row = 0
    /\ spc = "new"

Init == PipeInit /\ ParseIdle /\ SizeIdle

\* ------------------------------------------------------------------------
\* Main world (producer and consumer side)
\* ------------------------------------------------------------------------
mainVars == <<copiers, spawned, enabled, toggles, writes>>

renderVars == <<image_copiers, buffer, buffer_data, queue, pc, idx, frame, slot, vec,
                panic, log, copied, sent, not_ready>>

\* ImageCopier::new: a fresh staging buffer (not mapped at creation) and
\* enabled = true; the component is spawned into the main world
Spawn ==
    /\ panic = "none"
    /\ spawned < NumReqs
    /\ spawned' = spawned + 1
    /\ copiers' = Append(copiers, spawned + 1)
    /\ UNCHANGED <<enabled, toggles, writes, channel, receiver_alive, received, sent_ok>>
    /\ UNCHANGED renderVars
    /\ UNCHANGED parseVars
    /\ UNCHANGED sizeVars

\* A store to the shared enabled flag by a holder of the Arc<AtomicBool>
SetEnabled(r) ==
    /\ panic = "none"
    /\ r <= spawned
    /\ toggles < MaxToggles
    /\ toggles' = toggles + 1
    /\ enabled' = [enabled EXCEPT ![r] = ~enabled[r]]
    /\ writes' = [writes EXCEPT ![r] = Bump(writes[r])]
    /\ UNCHANGED <<copiers, spawned, channel, receiver_alive, received, sent_ok>>
    /\ UNCHANGED renderVars
    /\ UNCHANGED parseVars
    /\ UNCHANGED sizeVars

\* The main world takes the next buffer from MainWorldReceiver
Receive ==
    /\ panic = "none"
    /\ receiver_alive
    /\ channel # <<>>
    /\ received' = Append(received, Head(channel))
    /\ channel' = Tail(channel)
    /\ UNCHANGED <<receiver_alive, sent_ok>>
    /\ UNCHANGED mainVars
    /\ UNCHANGED renderVars
    /\ UNCHANGED parseVars
    /\ UNCHANGED sizeVars

\* The main world clears its resources, MainWorldReceiver included
DropReceiver ==
    /\ panic = "none"
    /\ receiver_alive
    /\ receiver_alive' = FALSE
    /\ channel' = <<>>
    /\ UNCHANGED <<received, sent_ok>>
    /\ UNCHANGED mainVars
    /\ UNCHANGED renderVars
    /\ UNCHANGED parseVars
    /\ UNCHANGED sizeVars

\* ------------------------------------------------------------------------
\* Render world
\* ------------------------------------------------------------------------
chanVars == <<channel, receiver_alive, received, sent_ok>>

\* Mutant: the components are added to the registry that was there
ExtractRegistryMerged(old, cur) ==
    old \o SelectSeq(cur, LAMBDA r : \A i \in 1..Len(old) : old[i] # r)

\* insert_resource(ImageCopiers(query.iter().cloned().collect())): the new
\* resource value replaces the old one
ExtractRegistry(old, cur) == cur

\* image_copy_extract: the registry is replaced by clones of the main world's
\* ImageCopier components; the frame's stages then run
Extract ==
    /\ pc = "extract"
    /\ panic = "none"
    /\ frame < MaxFrames
    /\ frame' = frame + 1
    /\ image_copiers' = ExtractRegistry(image_copiers, copiers)
    /\ Goto(NextCopy(ExtractRegistry(image_copiers, copiers), 1))
    /\ log' = <<>>
    /\ copied' = {}
    /\ sent' = <<>>
    /\ not_ready' = {}
    /\ writes' = [r \in Reqs |-> 0]
    /\ UNCHANGED <<copiers, spawned, enabled, toggles, buffer, buffer_data, queue, slot,
                   vec, panic>>
    /\ UNCHANGED chanVars
    /\ UNCHANGED parseVars
    /\ UNCHANGED sizeVars

\* ImageCopyNode::run, `if !image_copier.enabled() { continue; }`
CopyCheck ==
    /\ pc = "copy_check"
    /\ IF Enabled(Cur) THEN pc' = "copy_submit" /\ idx' = idx
       ELSE Goto(AfterCopy(idx + 1))
    /\ UNCHANGED <<image_copiers, buffer, buffer_data, queue, frame, slot, vec, panic,
                   log, copied, sent, not_ready>>
    /\ UNCHANGED mainVars
    /\ UNCHANGED chanVars
    /\ UNCHANGED parseVars
    /\ UNCHANGED sizeVars

\* Mutant: a missing source image is skipped with `continue`
SourceMissingContinue == AfterCopy(idx + 1)

\* What `gpu_images.get(&image_copier.src_image).unwrap()` does on None: panic
SourceMissing == <<"panicked", idx>>

\* ImageCopyNode::run, the rest of the loop body: gpu_images.get(..).unwrap()
\* panics when the source image is not GPU resident; otherwise the copy
\* command is encoded and submitted to the RenderQueue
CopySubmit ==
    /\ pc = "copy_submit"
    /\ \E ready \in BOOLEAN :
         IF ready
         THEN /\ queue' = Append(queue, <<Cur, frame>>)
              /\ copied' = copied \cup {Cur}
              /\ Goto(AfterCopy(idx + 1))
              /\ UNCHANGED <<panic, not_ready>>
         ELSE /\ Goto(SourceMissing)
              /\ panic' = IF pc' = "panicked" THEN "SourceNotReady" ELSE panic
              /\ not_ready' = not_ready \cup {Cur}
              /\ UNCHANGED <<queue, copied>>
    /\ UNCHANGED <<image_copiers, buffer, buffer_data, frame, slot, vec, log, sent>>
    /\ UNCHANGED mainVars
    /\ UNCHANGED chanVars
    /\ UNCHANGED parseVars
    /\ UNCHANGED sizeVars

\* receive_image_from_buffer, `if !image_copier.enabled() { continue; }`
RecvCheck ==
    /\ pc = "recv_check"
    /\ IF Enabled(Cur) THEN pc' = "map_async" /\ idx' = idx
       ELSE Goto(AfterRecv(idx + 1))
    /\ UNCHANGED <<image_copiers, buffer, buffer_data, queue, frame, slot, vec, panic,
                   log, copied, sent, not_ready>>
    /\ UNCHANGED mainVars
    /\ UNCHANGED chanVars
    /\ UNCHANGED parseVars
    /\ UNCHANGED sizeVars

\* crossbeam_channel::bounded(1) and buffer_slice.map_async(MapMode::Read, ..):
\* the map of an unmapped buffer becomes pending; a buffer that is mapped or
\* has a map pending refuses the request, the callback gets Err and panics
MapAsync ==
    /\ pc = "map_async"
    /\ slot' = <<>>
    /\ log' = <<"map">>
    /\ IF buffer[Cur] = "unmapped"
       THEN /\ buffer' = [buffer EXCEPT ![Cur] = "pending"]
            /\ pc' = "poll"
            /\ panic' = panic
       ELSE /\ buffer' = buffer
            /\ pc' = "panicked"
            /\ panic' = "MapFailed"
    /\ UNCHANGED <<image_copiers, buffer_data, queue, idx, frame, vec, copied, sent,
                   not_ready>>
    /\ UNCHANGED mainVars
    /\ UNCHANGED chanVars
    /\ UNCHANGED parseVars
    /\ UNCHANGED sizeVars

\* Mutant: the callback deposits nothing
MapOkLost == slot

\* The map_async callback on Ok: `s.send(r)` deposits the result into the slot
MapOk == Append(slot, "mapped")

\* Mutant: the callback forwards the Err into the slot instead of panicking
MapErrForwarded == [pc |-> "recv", slot |-> Append(slot, "failed")]

\* The map_async callback on Err: `panic!("Failed to map buffer {err}")`
MapErr == [pc |-> "panicked", slot |-> slot]

\* render_device.poll(Maintain::wait()): the device executes the submitted
\* commands and completes the pending map, running the callback: Ok deposits
\* into the slot, Err panics
Poll ==
    /\ pc = "poll"
    /\ buffer_data' = Execute(queue, buffer_data)
    /\ queue' = <<>>
    /\ \E ok \in BOOLEAN :
         IF ok
         THEN /\ Len(slot) < 1
              /\ slot' = MapOk
              /\ buffer' = [buffer EXCEPT ![Cur] = "mapped"]
              /\ pc' = "recv"
              /\ log' = Append(log, "poll")
              /\ panic' = panic
         ELSE /\ buffer' = [buffer EXCEPT ![Cur] = "unmapped"]
              /\ pc' = MapErr.pc
              /\ slot' = MapErr.slot
              /\ panic' = "MapFailed"
              /\ UNCHANGED log
    /\ UNCHANGED <<image_copiers, idx, frame, vec, copied, sent, not_ready>>
    /\ UNCHANGED mainVars
    /\ UNCHANGED chanVars
    /\ UNCHANGED parseVars
    /\ UNCHANGED sizeVars

\* r.recv().expect(..): blocks until the callback has deposited into the slot
RecvSlot ==
    /\ pc = "recv"
    /\ slot # <<>>
    /\ slot' = Tail(slot)
    /\ pc' = "copy_out"
    /\ log' = Append(log, "wait")
    /\ UNCHANGED <<image_copiers, buffer, buffer_data, queue, idx, frame, vec, panic,
                   copied, sent, not_ready>>
    /\ UNCHANGED mainVars
    /\ UNCHANGED chanVars
    /\ UNCHANGED parseVars
    /\ UNCHANGED sizeVars

\* buffer_slice.get_mapped_range().to_vec(): panics unless the buffer is mapped
CopyOut ==
    /\ pc = "copy_out"
    /\ IF buffer[Cur] = "mapped"
       THEN /\ vec' = [req |-> Cur, data |-> buffer_data[Cur]]
            /\ pc' = "send"
            /\ log' = Append(log, "copy")
            /\ panic' = panic
       ELSE /\ pc' = "panicked"
            /\ panic' = "NotMapped"
            /\ UNCHANGED <<vec, log>>
    /\ UNCHANGED <<image_copiers, buffer, buffer_data, queue, idx, frame, slot, copied,
                   sent, not_ready>>
    /\ UNCHANGED mainVars
    /\ UNCHANGED chanVars
    /\ UNCHANGED parseVars
    /\ UNCHANGED sizeVars

\* Mutant: a failed send moves on to the next request with `continue`
AfterSendContinue(ok) == IF ok THEN <<"unmap", idx>> ELSE AfterRecv(idx + 1)

\* Mutant: the result of the send is unwrapped with `expect`
AfterSendExpect(ok) == IF ok THEN <<"unmap", idx>> ELSE <<"panicked", idx>>

\* What `let _ = sender.send(..)` does with the result of the send: nothing
AfterSend(ok) == <<"unmap", idx>>

\* Mutant: the buffer is put in front of the undelivered ones
EnqueueFront(q, v) == <<v>> \o q

\* Sender::send: the buffer is queued behind the undelivered ones
Enqueue(q, v) == Append(q, v)

\* Mutant: a Delivery Channel that holds one buffer
ChannelFullAtOne(q) == Len(q) >= 1

\* The Delivery Channel is unbounded: no number of undelivered buffers fills it
ChannelFull(q) == FALSE

\* `let _ = sender.send(vec)`: Err when the receiver is gone, and ignored;
\* a send into a full channel with a live receiver would wait for room
Send ==
    /\ pc = "send"
    /\ ~(receiver_alive /\ ChannelFull(channel))
    /\ IF receiver_alive
       THEN /\ channel' = Enqueue(channel, vec)
            /\ sent_ok' = Append(sent_ok, vec)
       ELSE UNCHANGED <<channel, sent_ok>>
    /\ Goto(AfterSend(receiver_alive))
    /\ panic' = IF pc' = "panicked" THEN "SendFailed" ELSE panic
    /\ sent' = Append(sent, Cur)
    /\ vec' = NoVec
    /\ log' = Append(log, "send")
    /\ UNCHANGED <<image_copiers, buffer, buffer_data, queue, frame, slot, copied,
                   not_ready>>
    /\ UNCHANGED <<receiver_alive, received>>
    /\ UNCHANGED mainVars
    /\ UNCHANGED parseVars
    /\ UNCHANGED sizeVars

\* Mutant: the loop body ends without unmapping the buffer
UnmapForgotten ==
    /\ pc = "unmap"
    /\ buffer' = buffer
    /\ log' = Append(log, "unmap")
    /\ Goto(AfterRecv(idx + 1))
    /\ UNCHANGED <<image_copiers, buffer_data, queue, frame, slot, vec, panic, copied,
                   sent, not_ready>>
    /\ UNCHANGED mainVars
    /\ UNCHANGED chanVars
    /\ UNCHANGED parseVars
    /\ UNCHANGED sizeVars

\* image_copier.buffer.unmap(), the end of the loop body
Unmap ==
    /\ pc = "unmap"
    /\ buffer' = [buffer EXCEPT ![Cur] = "unmapped"]
    /\ log' = Append(log, "unmap")
    /\ Goto(AfterRecv(idx + 1))
    /\ UNCHANGED <<image_copiers, buffer_data, queue, frame, slot, vec, panic, copied,
                   sent, not_ready>>
    /\ UNCHANGED mainVars
    /\ UNCHANGED chanVars
    /\ UNCHANGED parseVars
    /\ UNCHANGED sizeVars

\* ------------------------------------------------------------------------
\* Specification
\* ------------------------------------------------------------------------
Next ==
    \/ Spawn
    \/ \E r \in Reqs : SetEnabled(r)
    \/ Receive
    \/ DropReceiver
    \/ Extract
    \/ CopyCheck
    \/ CopySubmit
    \/ RecvCheck
    \/ MapAsync
    \/ Poll
    \/ RecvSlot
    \/ CopyOut
    \/ Send
    \/ Unmap

Spec == Init /\ [][Next]_vars

\* ------------------------------------------------------------------------
\* Properties of the readback pipeline
\* ------------------------------------------------------------------------
IsPrefix(s, t) == Len(s) <= Len(t) /\ s = SubSeq(t, 1, Len(s))

Count(s, r) == Cardinality({i \in 1..Len(s) : s[i] = r})

InRegistry(r) == \E i \in 1..Len(image_copiers) : image_copiers[i] = r

\* The frame's stages have run to their end
FrameDone == pc = "extract" /\ frame > 0

\* The request's flag was not stored to since the frame's extraction
Stable(r) == writes[r] = 0

\* The steps of receive_image_from_buffer for one request
Canon == <<"map", "poll", "wait", "copy", "send", "unmap">>

\* C1: for every request receive_image_from_buffer processes, map request,
\* poll, wait for the callback, copy-out, send and unmap happen in that order,
\* the buffer is mapped exactly from the completed map to the unmap, and a
\* request is left (for the next request or the next frame) only after its
\* unmap, whether the send succeeded or failed.
C1_MapWaitCopySendUnmap ==
    /\ [](IsPrefix(log, Canon))
    /\ [](\A r \in Reqs :
            buffer[r] = "mapped" <=>
                /\ pc \in {"recv", "copy_out", "send", "unmap"}
                /\ r = Cur
                /\ Len(log) \in 2..5)
    /\ [][(log' # log /\ Len(log') <= Len(log)) => log = Canon]_vars

\* C1 witness: a request went through all six steps although its send failed
C1_Witness ==
    /\ log = Canon
    /\ sent # <<>>
    /\ sent_ok = <<>>
    /\ buffer[sent[Len(sent)]] = "unmapped"

C3_RegistryOrderFifo ==
    /\ receiver_alive => received \o channel = sent_ok
    /\ IsPrefix(received, sent_ok)
    /\ \A i, j \in 1..Len(sent) :
         i < j => \E k, l \in 1..Len(image_copiers) :
                    k < l /\ image_copiers[k] = sent[i] /\ image_copiers[l] = sent[j]
    /\ FrameDone =>
         SelectSeq(sent, Stable) = SelectSeq(image_copiers, LAMBDA r : Stable(r) /\ enabled[r])

\* C3 witness: two buffers sent in the second frame, after the consumer took
\* buffers of both frames
C3_Witness ==
    /\ FrameDone
    /\ frame = 2
    /\ Len(sent) = 2
    /\ Len(received) >= 3
    /\ Len(sent_ok) = 4

\* C4: a request whose flag is false and was not written since the frame's
\* extraction has no copy submitted, no map requested or held and no buffer
\* sent in that frame.
C4_DisabledSkipped ==
    \A r \in Reqs :
        (frame > 0 /\ Stable(r) /\ ~enabled[r]) =>
            /\ r \notin copied
            /\ Count(sent, r) = 0
            /\ buffer[r] = "unmapped"
            /\ \A i \in 1..Len(queue) : queue[i] # <<r, frame>>
            /\ (pc \notin {"copy_check", "recv_check", "extract", "panicked"} => Cur # r)

\* C4 witness: a frame ran to its end with a request disabled throughout while
\* another request was delivered
C4_Witness ==
    /\ FrameDone
    /\ frame = 2
    /\ Len(sent) = 1
    /\ \E r \in Reqs : InRegistry(r) /\ Stable(r) /\ ~enabled[r]

C6_BufferDiscipline ==
    /\ [](pc = "map_async" => buffer[Cur] = "unmapped")
    /\ [](pc = "copy_out" => buffer[Cur] = "mapped")
    /\ [](\A r \in Reqs :
            buffer[r] # "unmapped" =>
                pc \in {"poll", "recv", "copy_out", "send", "unmap"} /\ r = Cur)
    /\ [][buffer' # buffer =>
            pc \in {"map_async", "poll", "unmap"} /\ pc' # pc]_vars

\* C6 witness: a buffer that was mapped and unmapped before is mapped again
\* and about to be read
C6_Witness ==
    /\ pc = "copy_out"
    /\ buffer[Cur] = "mapped"
    /\ \E i \in 1..Len(sent_ok) : sent_ok[i].req = Cur

\* C9: a send that fails because the receiver is gone is swallowed: the render
\* world does not panic on it, goes on to unmap that buffer, and by the end of
\* the frame every buffer is unmapped and every request that stayed enabled
\* was handed to send.
C9_SendFailureSwallowed ==
    /\ [](panic # "SendFailed")
    /\ [][(pc = "send" /\ ~receiver_alive /\ pc' # pc) =>
            (pc' = "unmap" /\ idx' = idx /\ channel' = channel)]_vars
    /\ []((FrameDone /\ ~receiver_alive) =>
            \A r \in Reqs :
                /\ buffer[r] = "unmapped"
                /\ (InRegistry(r) /\ Stable(r) /\ enabled[r]) => Count(sent, r) = 1)

\* C9 witness: a frame ran to its end with the sends of both requests failed
C9_Witness ==
    /\ FrameDone
    /\ ~receiver_alive
    /\ Len(sent) = 2
    /\ sent_ok = <<>>

\* C10: a request whose source image the Copy Stage could not resolve has no
\* copy submitted, no map requested and no buffer sent in that frame.
C10_SourceNotReadySkipped ==
    \A r \in not_ready :
        /\ r \notin copied
        /\ \A i \in 1..Len(queue) : queue[i] # <<r, frame>>
        /\ buffer[r] = "unmapped"
        /\ Count(sent, r) = 0
        /\ pc \in {"map_async", "poll", "recv", "copy_out", "send", "unmap"} => Cur # r

\* C10 witness: the second request's source was missing after the first
\* request's copy was submitted
C10_Witness ==
    /\ panic = "SourceNotReady"
    /\ idx = 2
    /\ copied # {}
    /\ not_ready = {image_copiers[2]}

\* ------------------------------------------------------------------------
\* Frame Reconstructor (parse_image_data) and the buffers it is given
\* ------------------------------------------------------------------------
MaxWidth == 66

MaxHeight == 4

MaxPattern == 1

\* wgpu::COPY_BYTES_PER_ROW_ALIGNMENT
COPY_BYTES_PER_ROW_ALIGNMENT == 256

\* pixel_size() of TextureFormat::bevy_default(), the format of the textures
\* create_render_textures makes
BevyDefaultPixelSize == 4

\* The widths tried: every small one, and the ones at and around an aligned row
Widths == (1..MaxWidth) \cup {128, 256, 258}

\* pixel_size() of the formats tried (R8, Rgba8, Rgba16)
PixelSizes == {1, 4, 8}

Min(a, b) == IF a < b THEN a ELSE b

\* RenderDevice::align_copy_bytes_per_row: row_bytes rounded up to the alignment
align_copy_bytes_per_row(row_bytes) ==
    ((row_bytes + COPY_BYTES_PER_ROW_ALIGNMENT - 1) \div COPY_BYTES_PER_ROW_ALIGNMENT)
        * COPY_BYTES_PER_ROW_ALIGNMENT

\* ImageCopier::new: the size of the staging buffer
NewBufferSize(sz) == (align_copy_bytes_per_row(sz.width) * 4) * sz.height

\* Mutant: the row pitch is left unaligned
CopyBytesPerRowUnaligned(width, block_width, block_size) ==
    (width \div block_width) * block_size

\* ImageCopyNode::run: padded_bytes_per_row of a texture whose format has
\* blocks block_width pixels wide and block_size bytes large
CopyBytesPerRow(width, block_width, block_size) ==
    align_copy_bytes_per_row((width \div block_width) * block_size)

\* slice::chunks(n): the k-th chunk (from 1) of v, the last one may be shorter
Chunk(v, n, k) == SubSeq(v, (k - 1) * n + 1, Min(k * n, Len(v)))

\* slice::chunks(n): the number of chunks of v
NumChunks(v, n) == (Len(v) + n - 1) \div n

\* Mutant: the rows are cut at row_bytes instead of aligned_row_bytes
RECURSIVE DePadUnaligned(_, _, _, _, _)
DePadUnaligned(v, row_bytes, aligned_row_bytes, height, k) ==
    IF k > Min(height, NumChunks(v, row_bytes)) THEN <<>>
    ELSE SubSeq(Chunk(v, row_bytes, k), 1, Min(row_bytes, Len(Chunk(v, row_bytes, k))))
         \o DePadUnaligned(v, row_bytes, aligned_row_bytes, height, k + 1)

\* image_data.chunks(aligned_row_bytes).take(height)
\*     .flat_map(|row| &row[..row_bytes.min(row.len())]).cloned().collect(),
\* from the k-th chunk on
RECURSIVE DePad(_, _, _, _, _)
DePad(v, row_bytes, aligned_row_bytes, height, k) ==
    IF k > Min(height, NumChunks(v, aligned_row_bytes)) THEN <<>>
    ELSE SubSeq(Chunk(v, aligned_row_bytes, k), 1,
                Min(row_bytes, Len(Chunk(v, aligned_row_bytes, k))))
         \o DePad(v, row_bytes, aligned_row_bytes, height, k + 1)

\* parse_image_data: what img_bytes.data is set to
parse_image_data(v, width, height, px) ==
    LET row_bytes == width * px
        aligned_row_bytes == align_copy_bytes_per_row(row_bytes)
    IN  IF row_bytes = aligned_row_bytes THEN v
        ELSE DePad(v, row_bytes, aligned_row_bytes, height, 1)

\* The test pattern number p: the byte at index i (from 1) of the packed texture
PatternByte(p, i) == ((i * (2 * p + 1)) + (((i - 1) \div 256) * 7) + p) % 256

\* The packed texture of n bytes with test pattern p
Pattern(p, n) == [i \in 1..n |-> PatternByte(p, i)]

\* A buffer of `rows` rows of `pitch` bytes each, plus `extra` bytes: row r
\* holds the r-th row_bytes bytes of tex, every other byte is pad
Padded(tex, row_bytes, pitch, rows, extra, pad) ==
    [i \in 1..(pitch * rows + extra) |->
        IF ((i - 1) \div pitch) < rows /\ ((i - 1) % pitch) < row_bytes
        THEN tex[((i - 1) \div pitch) * row_bytes + ((i - 1) % pitch) + 1]
        ELSE pad]

\* The image's extent and format and the texture's bytes are the inputs
ParseInit ==
    /\ size \in [width : Widths, height : 1..MaxHeight]
    /\ pixel_size \in PixelSizes
    /\ \E p \in 0..MaxPattern : pattern = Pattern(p, size.width * pixel_size * size.height)
    /\ origin = "none"
    /\ image_data = <<>>
    /\ img_data = <<>>
    /\ ppc = "make"

\* A synthetic buffer: each row of the pattern padded to aligned_row_bytes
PadSynthetic ==
    /\ ppc = "make"
    /\ \E pad \in {0, 255} :
         image_data' = Padded(pattern, size.width * pixel_size,
                              align_copy_bytes_per_row(size.width * pixel_size),
                              size.height, 0, pad)
    /\ origin' = "padded"
    /\ ppc' = "parse"
    /\ UNCHANGED <<size, pixel_size, pattern, img_data>>
    /\ UNCHANGED pipeVars
    /\ UNCHANGED sizeVars

\* The buffer receive_image_from_buffer sends for a texture made by
\* create_render_textures: the whole zero-initialised staging buffer of
\* ImageCopier::new, into which ImageCopyNode::run copied the texture's rows
\* with a pitch of padded_bytes_per_row
ReadStaging ==
    /\ ppc = "make"
    /\ pixel_size = BevyDefaultPixelSize
    /\ LET pitch == CopyBytesPerRow(size.width, 1, pixel_size)
       IN  image_data' = Padded(pattern, size.width * pixel_size, pitch, size.height,
                                NewBufferSize(size) - pitch * size.height, 0)
    /\ origin' = "staging"
    /\ ppc' = "parse"
    /\ UNCHANGED <<size, pixel_size, pattern, img_data>>
    /\ UNCHANGED pipeVars
    /\ UNCHANGED sizeVars

\* parse_image_data fills img_bytes.data from the received buffer
ParseImageData ==
    /\ ppc = "parse"
    /\ img_data' = parse_image_data(image_data, size.width, size.height, pixel_size)
    /\ ppc' = "done"
    /\ UNCHANGED <<size, pixel_size, pattern, origin, image_data>>
    /\ UNCHANGED pipeVars
    /\ UNCHANGED sizeVars

ParseNext ==
    \/ PadSynthetic
    \/ ReadStaging
    \/ ParseImageData

InitParse == PipeInit /\ ParseInit /\ SizeIdle

SpecParse == InitParse /\ [][ParseNext]_vars

\* ------------------------------------------------------------------------
\* Properties of the Frame Reconstructor
\* ------------------------------------------------------------------------
\* C7 (as claimed): whatever buffer it is given, parse_image_data leaves
\* exactly row_bytes x height bytes in the image, on the direct-copy path too.
C7_OutputLength ==
    ppc = "done" => Len(img_data) = size.width * pixel_size * size.height

\* C8: a pattern whose rows were padded to aligned_row_bytes is given back by
\* parse_image_data byte for byte.
C8_RoundTrip ==
    (ppc = "done" /\ origin = "padded") => img_data = pattern

\* C8 witness: 258x4 Rgba8, 5120 padded bytes reconstructed to 4128 bytes
C8_Witness ==
    /\ ppc = "done"
    /\ origin = "padded"
    /\ size = [width |-> 258, height |-> 4]
    /\ pixel_size = 4
    /\ Len(image_data) = 5120
    /\ Len(img_data) = 4128
    /\ img_data = pattern

\* ------------------------------------------------------------------------
\* Further properties of the readback pipeline
\* ------------------------------------------------------------------------
\* The render world is through with the frame: its stages ran to their end, or
\* it panicked
FrameOver == FrameDone \/ pc = "panicked"

\* C11 (as claimed): a request whose source image is missing, or whose send
\* failed, does not keep the other requests of the frame from being handled:
\* once the render world is through with the frame, every other request that
\* stayed enabled had its copy submitted and its buffer sent and unmapped.
C11_ErrorsScopedToRequest ==
    (FrameOver /\ frame > 0 /\ panic \in {"none", "SourceNotReady"}) =>
        \A r \in Reqs :
            (InRegistry(r) /\ r \notin not_ready /\ Stable(r) /\ enabled[r]) =>
                /\ r \in copied
                /\ Count(sent, r) = 1
                /\ buffer[r] = "unmapped"

\* C19: while the Copy Stage runs, and so whenever it submits a copy into a
\* staging buffer, every staging buffer is unmapped with no map pending: each
\* map of the frames before was unmapped before the Copy Stage started.
C19_CopyIntoUnmapped ==
    pc \in {"extract", "copy_check", "copy_submit"} =>
        \A r \in Reqs : buffer[r] = "unmapped"

\* C19 witness: the Copy Stage is about to submit a copy into a buffer that
\* was mapped, sent and unmapped in the frame before
C19_Witness ==
    /\ pc = "copy_submit"
    /\ frame = 2
    /\ buffer[Cur] = "unmapped"
    /\ \E i \in 1..Len(sent_ok) : sent_ok[i].req = Cur

\* C12: when the map callback reports failure the render world is stopped by
\* the panic: nothing is in the rendezvous slot, the buffer is not mapped and
\* its range was not read, and no buffer was sent for that request.
C12_MapFailedIsFatal ==
    panic = "MapFailed" =>
        /\ pc = "panicked"
        /\ slot = <<>>
        /\ buffer[Cur] # "mapped"
        /\ vec = NoVec
        /\ \A i \in 1..Len(log) : log[i] \notin {"copy", "send"}
        /\ Count(sent, Cur) = 0

\* C12 witness: the second request's map failed after the first request's
\* buffer was sent
C12_Witness ==
    /\ panic = "MapFailed"
    /\ pc = "panicked"
    /\ idx = 2
    /\ Len(sent) = 1
    /\ log = <<"map">>

\* ------------------------------------------------------------------------
\* The sizes of the staging buffer and of the copy into it
\* ------------------------------------------------------------------------
MaxTexWidth == 130

\* block_dimensions().0 and block_copy_size(None) of the formats tried: R8,
\* Rgba8 (bevy_default), Rgba16Float, Rgba32Float, Bc1 and Bc7
Formats ==
    {[block_width |-> 1, block_size |-> 1], [block_width |-> 1, block_size |-> 4],
     [block_width |-> 1, block_size |-> 8], [block_width |-> 1, block_size |-> 16],
     [block_width |-> 4, block_size |-> 8], [block_width |-> 4, block_size |-> 16]}

\* The textures tried: of a block format the width is a multiple of the block
\* width (the device creates no other texture)
SizeInit ==
    /\ \E w \in 1..MaxTexWidth, h \in 1..MaxHeight, f \in Formats :
         /\ w % f.block_width = 0
         /\ texture = [width |-> w, height |-> h, block_width |-> f.block_width,
                       block_size |-> f.block_size]
    /\ allocated = 0
    /\ padded_bytes_per_row = 0
    /\ spc = "new"

\* ImageCopier::new creates the staging buffer from the extent alone
NewCopier ==
    /\ spc = "new"
    /\ allocated' = NewBufferSize(texture)
    /\ spc' = "run"
    /\ UNCHANGED <<texture, padded_bytes_per_row>>
    /\ UNCHANGED pipeVars
    /\ UNCHANGED parseVars

\* ImageCopyNode::run computes padded_bytes_per_row from the live texture and
\* copies into the buffer, which stays as created
RunCopy ==
    /\ spc = "run"
    /\ padded_bytes_per_row' =
         CopyBytesPerRow(texture.width, texture.block_width, texture.block_size)
    /\ spc' = "done"
    /\ UNCHANGED <<texture, allocated>>
    /\ UNCHANGED pipeVars
    /\ UNCHANGED parseVars

SizeNext ==
    \/ NewCopier
    \/ RunCopy

InitSize == PipeInit /\ ParseIdle /\ SizeInit

SpecSize == InitSize /\ [][SizeNext]_vars

\* ------------------------------------------------------------------------
\* Properties of the staging buffer's size
\* ------------------------------------------------------------------------
\* C13 (as claimed): the staging buffer of ImageCopier::new, and so the mapped
\* range that is sent, has exactly
\* round_up(width x bytes_per_pixel, alignment) x height bytes.
C13_AllocationIsPaddedRows ==
    origin = "staging" =>
        Len(image_data) = align_copy_bytes_per_row(size.width * pixel_size) * size.height

\* The blocks that cover one row of the texture
BlocksPerRow == (texture.width + texture.block_width - 1) \div texture.block_width

\* C14: the padded_bytes_per_row the Copy Stage computes is a multiple of the
\* alignment and at least the bytes of the blocks covering one row.
C14_CopyPitchAlignedAndWide ==
    spc = "done" =>
        /\ padded_bytes_per_row % COPY_BYTES_PER_ROW_ALIGNMENT = 0
        /\ padded_bytes_per_row >= BlocksPerRow * texture.block_size
        /\ padded_bytes_per_row > 0

\* C14 witness: a block format whose row fills the alignment exactly
C14_Witness ==
    /\ spc = "done"
    /\ texture.block_width = 4
    /\ BlocksPerRow * texture.block_size = COPY_BYTES_PER_ROW_ALIGNMENT
    /\ padded_bytes_per_row = COPY_BYTES_PER_ROW_ALIGNMENT

\* C15 (as claimed): for every extent and format the staging buffer of
\* ImageCopier::new holds the region the Copy Stage writes.
C15_AllocationHoldsCopy ==
    spc = "done" => allocated >= padded_bytes_per_row * texture.height

\* ------------------------------------------------------------------------
\* Properties of the render side's waits
\* ------------------------------------------------------------------------
\* The steps of ImageCopyNode::run and receive_image_from_buffer
RenderStep ==
    \/ CopyCheck
    \/ CopySubmit
    \/ RecvCheck
    \/ MapAsync
    \/ Poll
    \/ RecvSlot
    \/ CopyOut
    \/ Send
    \/ Unmap

\* C16: the send on the Delivery Channel can always be taken, whatever is
\* queued undelivered and whether or not the receiver is there; the blocking
\* receive from the rendezvous slot is the only render step that can wait.
C16_SendNeverBlocks ==
    /\ pc = "send" => ENABLED Send
    /\ pc \in {"copy_check", "copy_submit", "recv_check", "map", "poll", "copy_out",
               "send", "unmap"} => ENABLED RenderStep

\* C16 witness: the fourth buffer is about to be sent with three undelivered
\* ones queued and a receiver that has taken none
C16_Witness ==
    /\ pc = "send"
    /\ receiver_alive
    /\ received = <<>>
    /\ Len(channel) = 3

\* ------------------------------------------------------------------------
\* Termination of receive_image_from_buffer
\* ------------------------------------------------------------------------
\* The frames with a consumer that takes nothing from the Delivery Channel
LiveNext ==
    \/ Spawn
    \/ \E r \in Reqs : SetEnabled(r)
    \/ DropReceiver
    \/ Extract
    \/ RenderStep

\* The render systems keep executing: a step that can be taken is taken
SpecLive == Init /\ [][LiveNext]_vars /\ WF_vars(RenderStep)

AllUnmapped == \A r \in Reqs : buffer[r] = "unmapped"

\* C17: unless a map fails, a run of receive_image_from_buffer ends with all
\* staging buffers unmapped; the rendezvous slot never holds more than one
\* result, the callback finds it empty, and the blocking receive finds the
\* result the callback left during the poll.
C17_ReceiveTerminates ==
    /\ [](Len(slot) <= 1)
    /\ [](pc = "poll" => slot = <<>>)
    /\ [](pc = "recv" => ENABLED RecvSlot)
    /\ (pc = "recv_check" /\ idx = 1) ~>
           ((pc = "extract" /\ AllUnmapped) \/ panic = "MapFailed")

\* C17 witness: the second run has ended after four maps, all buffers
\* unmapped and the slot empty
C17_Witness ==
    /\ pc = "extract"
    /\ frame = 2
    /\ Len(sent) = 2
    /\ Len(sent_ok) = 4
    /\ log = <<"map", "poll", "wait", "copy", "send", "unmap">>
    /\ slot = <<>>
    /\ AllUnmapped
    /\ panic = "none"

\* ------------------------------------------------------------------------
\* The registry across frames, with a producer that also removes requests
\* ------------------------------------------------------------------------
\* The producer despawns an ImageCopier entity; the registry's clone keeps the
\* staging buffer and the flag alive
Despawn(r) ==
    /\ panic = "none"
    /\ \E i \in 1..Len(copiers) : copiers[i] = r
    /\ copiers' = SelectSeq(copiers, LAMBDA x : x # r)
    /\ UNCHANGED <<spawned, enabled, toggles, writes>>
    /\ UNCHANGED chanVars
    /\ UNCHANGED renderVars
    /\ UNCHANGED parseVars
    /\ UNCHANGED sizeVars

RegistryNext ==
    \/ Spawn
    \/ \E r \in Reqs : Despawn(r)
    \/ Extract
    \/ RenderStep

SpecRegistry == Init /\ [][RegistryNext]_vars

\* C18: image_copy_extract leaves the registry equal to the producer's
\* requests of that moment, no other step changes the registry, and the
\* stages copy and send only for members of the frame's registry.
C18_RegistryRebuiltPerFrame ==
    /\ [][IF frame' # frame
          THEN image_copiers' = copiers
          ELSE image_copiers' = image_copiers]_vars
    /\ [](\A r \in Reqs : (r \in copied \/ Count(sent, r) > 0) => InRegistry(r))

\* C18 witness: in the second frame the registry is <<2>>: request 1, delivered
\* in the first frame, was removed before extraction and is gone, and request
\* 2, removed after extraction, is still being served
C18_Witness ==
    /\ frame = 2
    /\ pc = "send"
    /\ image_copiers = <<2>>
    /\ copiers = <<>>
    /\ \E i \in 1..Len(sent_ok) : sent_ok[i].req = 1

====
